---------------------------- MODULE Spec2Model ----------------------------
(***************************************************************************)
(* latlon_utils: nearest-grid-cell climate lookup (get_climate), country   *)
(* lookup by point-in-polygon (get_country) and the data-file resolver     *)
(* (get_data_file) of src/latlon_utils/__init__.py.                        *)
(*                                                                         *)
(* Coordinates and raster values are integers here (the code uses floats): *)
(* comparisons, differences and sums are the same on both, rounding is not *)
(* modelled.  A mean is kept as the exact fraction sum/count.              *)
(* Arrays are TLA+ sequences; the code's zero-based index i is position    *)
(* i + 1, and At(arr, i) reads it the way numpy does (a negative index     *)
(* counts from the end).                                                   *)
(***************************************************************************)
EXTENDS Integers, Sequences, FiniteSets, TLC

VARIABLES
    files,      \* names of the files that exist in the data directory
    datadir,    \* whether the data directory exists
    pc,         \* position of the running call ("idle" between calls)
    lat,        \* the call's lat argument (after np.asarray in get_climate)
    lon,        \* the call's lon argument (normalised in get_climate)
    variables,  \* get_climate's variables list
    res,        \* get_climate's resolution
    squeeze,    \* get_climate's squeeze flag
    io,         \* I/O performed by the running call, in order
    k,          \* position of the loop over variables (1-based)
    nco,        \* the datasets opened by the call, one per variable read
    idx_lat,    \* result of the latitude lookup of the dataset read last
    idx_lon,    \* result of the longitude lookup of the dataset read last
    ret,        \* get_climate's result table under construction
    data,       \* get_country's loaded features list
    countries,  \* get_country's name -> geometry dict, in iteration order
    call,       \* the running call and its arguments as the caller gave them
    result,     \* what the call returned or raised
    asked,      \* file names that earlier direct get_data_file calls asked for
    returned    \* those of them that such a call returned the path of

vars == <<files, datadir, pc, lat, lon, variables, res, squeeze, io, k, nco,
          idx_lat, idx_lon, ret, data, countries, call, result, asked,
          returned>>

----------------------------------------------------------------------------
(* Bounds of the model *)

\* longest axis of the grid-resolver specification
MaxAxisLen == 3
\* axis values of the grid-resolver specification are 0..MaxAxisVal
MaxAxisVal == 4
\* most query points of a call
MaxPoints == 2
\* longest variables list of a get_climate call
MaxVars == 2
\* most features of a boundary collection
MaxFeatures == 3

----------------------------------------------------------------------------
(* numpy helpers *)

\* a scalar argument and a one-dimensional sequence argument, with np.shape
Scalar(x) == [shape |-> << >>, data |-> <<x>>]
Array(s) == [shape |-> <<Len(s)>>, data |-> s]

\* arr[i] for a zero-based index i, negative indices counting from the end
At(arr, i) == IF i < 0 THEN arr[Len(arr) + i + 1] ELSE arr[i + 1]

\* arr[::-1]
Reverse(arr) == [i \in 1..Len(arr) |-> arr[Len(arr) + 1 - i]]

\* np.searchsorted(arr, v) (side='left') on an ascending arr: the leftmost
\* zero-based position p with arr[p] >= v, Len(arr) when there is none
searchsorted(arr, v) == Cardinality({i \in 1..Len(arr) : arr[i] < v})

----------------------------------------------------------------------------
(* Values shared by the specifications *)

NoCall == [op |-> "none", lat |-> Scalar(0), lon |-> Scalar(0)]
NoLookup == [raised |-> "none", idx |-> << >>]
NoTable == [index |-> << >>, columns |-> << >>, data |-> << >>]
NoResult == [kind |-> "none", error |-> "none", index |-> << >>,
             columns |-> << >>, data |-> << >>, value |-> << >>]
Raised(e) == [NoResult EXCEPT !.kind = "raised", !.error = e]

Abs(x) == IF x < 0 THEN -x ELSE x

\* strictly ascending sequences of length 1..n over 0..m
AscendingAxes(n, m) ==
    UNION {{a \in [1..len -> 0..m] : \A i \in 1..(len - 1) : a[i] < a[i + 1]}
           : len \in 1..n}

----------------------------------------------------------------------------
(* get_climate.find_closest *)

\* find_closest with the comparison of line 296 as >=
find_closest_lower_tie(arr, vals) ==
    LET size == Len(arr)
        idx == [n \in DOMAIN vals |-> searchsorted(arr, vals[n])]
    IN  IF \E n \in DOMAIN vals : idx[n] >= size
        THEN [raised |-> "IndexError", idx |-> << >>]
        ELSE LET diff == [n \in DOMAIN vals |-> At(arr, idx[n]) - vals[n]]
                 diffprev == [n \in DOMAIN vals |->
                                vals[n] - At(arr, idx[n] - 1)]
             IN  [raised |-> "none",
                  idx |-> [n \in DOMAIN vals |->
                             IF idx[n] > 0 /\ idx[n] < size
                                /\ diff[n] >= diffprev[n]
                             THEN idx[n] - 1 ELSE idx[n]]]

\* The fancy index arr[idx] of line 293 is evaluated before the clamp of
\* line 295: an idx equal to arr.size is out of bounds there and numpy
\* raises IndexError for the whole call.
find_closest(arr, vals) ==
    LET size == Len(arr)
        \* line 292
        idx == [n \in DOMAIN vals |-> searchsorted(arr, vals[n])]
    IN  \* line 293: arr[idx]
        IF \E n \in DOMAIN vals : idx[n] >= size
        THEN [raised |-> "IndexError", idx |-> << >>]
        ELSE LET diff == [n \in DOMAIN vals |-> At(arr, idx[n]) - vals[n]]
                 \* line 294: arr[idx - 1] wraps to the last entry for idx = 0
                 diffprev == [n \in DOMAIN vals |->
                                vals[n] - At(arr, idx[n] - 1)]
                 \* line 295
                 clamped == [n \in DOMAIN vals |->
                               IF idx[n] = size THEN size - 1 ELSE idx[n]]
             IN  \* line 296
                 [raised |-> "none",
                  idx |-> [n \in DOMAIN vals |->
                             IF clamped[n] > 0 /\ clamped[n] < size
                                /\ diff[n] > diffprev[n]
                             THEN clamped[n] - 1 ELSE clamped[n]]]

\* lat_index with the index mapped back as len - idx
lat_index_no_offset(lat_axis, vals) ==
    LET r == find_closest(Reverse(lat_axis), vals)
    IN  IF r.raised # "none" THEN r
        ELSE [raised |-> "none",
              idx |-> [n \in DOMAIN vals |-> Len(lat_axis) - r.idx[n]]]

\* lines 328-329: the latitude axis is stored descending; the lookup runs on
\* its reverse and the index is mapped back
lat_index(lat_axis, vals) ==
    LET r == find_closest(Reverse(lat_axis), vals)
    IN  IF r.raised # "none" THEN r
        ELSE [raised |-> "none",
              idx |-> [n \in DOMAIN vals |-> Len(lat_axis) - 1 - r.idx[n]]]

----------------------------------------------------------------------------
(* File names, the data directory and get_data_file *)

\* "<var>_<res>.nc", and a file name with no such structure
NcFile(v, r) == [name |-> "nc", var |-> v, res |-> r]
Plain(n) == [name |-> n, var |-> "", res |-> ""]

DataDir == Plain("latlon_utils")
CountriesGeojson == Plain("countries.geojson")
NaturalEarthShp == Plain("ne_10m_admin_0_countries.shp")

worldclim_variables == {"tmin", "tmax", "tavg", "prec", "srad", "wind", "vapr"}
worldclim_resolutions == {"10m", "5m", "2.5m", "30s"}

\* get_wc_resolution, with LATLONRES unset; "None" stands for None
get_wc_resolution(r) == IF r = "None" THEN "10m" ELSE r

Event(op, f) == [op |-> op, file |-> f]

\* The file system as a call sees and changes it: fs.files, fs.datadir, the
\* I/O done so far fs.io, and fs.raised, the error that ended the call.
get_data_dir(fs) ==
    LET seen == [fs EXCEPT !.io = Append(@, Event("exists", DataDir))]
    IN  IF fs.datadir THEN seen
        ELSE [seen EXCEPT !.io = Append(@, Event("makedirs", DataDir)),
                          !.datadir = TRUE]

\* urlretrieve (and the conversion that follows it) writes fname when the
\* transfer succeeds (ok) and raises otherwise
Retrieve(fs, fname, ok) ==
    LET tried == [fs EXCEPT !.io = Append(@, Event("download", fname))]
    IN  IF ok THEN [tried EXCEPT !.files = @ \cup {fname}]
        ELSE [tried EXCEPT !.raised = "URLError"]

\* outdir is None: get_data_dir(), then the osp.exists(outdir) test
download_outdir(fs) ==
    [get_data_dir(fs) EXCEPT !.io = Append(@, Event("exists", DataDir))]

download_wc_variable(name, r, fs, ok) ==
    Retrieve(download_outdir(fs), NcFile(name, r), ok)

download_geo_countries(fs, ok) ==
    Retrieve(download_outdir(fs), CountriesGeojson, ok)

\* the archive is fetched, extracted into the directory and removed
download_natural_earth_countries(fs, ok) ==
    Retrieve(download_outdir(fs), NaturalEarthShp, ok)

\* get_data_file returning the path of any missing file it cannot download
get_data_file_no_raise(fname, download, fs, ok) ==
    LET checked == [get_data_dir(fs) EXCEPT
                       !.io = Append(@, Event("exists", fname))]
    IN  IF fname \in fs.files THEN checked
        ELSE IF fname = CountriesGeojson
        THEN download_geo_countries(checked, ok)
        ELSE IF fname \in {NcFile(v, r) : v \in worldclim_variables,
                                          r \in worldclim_resolutions}
        THEN download_wc_variable(fname.var, fname.res, checked, ok)
        ELSE IF fname = NaturalEarthShp
        THEN download_natural_earth_countries(checked, ok)
        ELSE checked

\* get_data_file without the osp.exists test of line 73
get_data_file_refetch(fname, download, fs, ok) ==
    LET checked == get_data_dir(fs)
    IN  IF fname = CountriesGeojson
        THEN download_geo_countries(checked, ok)
        ELSE IF fname \in {NcFile(v, r) : v \in worldclim_variables,
                                          r \in worldclim_resolutions}
        THEN download_wc_variable(fname.var, fname.res, checked, ok)
        ELSE IF fname = NaturalEarthShp
        THEN download_natural_earth_countries(checked, ok)
        ELSE [get_data_dir(checked) EXCEPT !.raised = "ValueError"]

\* get_data_file(fname, download): the download parameter is not read by
\* the body.  The returned path is that of fname.
get_data_file(fname, download, fs, ok) ==
    LET checked == [get_data_dir(fs) EXCEPT
                       !.io = Append(@, Event("exists", fname))]
    IN  IF fname \in fs.files THEN checked
        ELSE IF fname = CountriesGeojson
        THEN download_geo_countries(checked, ok)
        ELSE IF fname \in {NcFile(v, r) : v \in worldclim_variables,
                                          r \in worldclim_resolutions}
        THEN download_wc_variable(fname.var, fname.res, checked, ok)
        ELSE IF fname = NaturalEarthShp
        THEN download_natural_earth_countries(checked, ok)
        ELSE \* the message of the ValueError is built with get_data_dir()
             [get_data_dir(checked) EXCEPT !.raised = "ValueError"]

\* the file system at the start of a call
CallFs(fls, dd) == [files |-> fls, datadir |-> dd, io |-> << >>,
                    raised |-> "none"]

----------------------------------------------------------------------------
(* get_climate: the result table *)

months == <<"jan", "feb", "mar", "apr", "mai", "jun", "jul", "aug", "sep",
            "oct", "nov", "dec">>
seasons == <<"djf", "mam", "jja", "son", "ann">>
cols == months \o seasons

Range(s) == {s[i] : i \in DOMAIN s}
MonthNo(c) == CHOOSE m \in DOMAIN months : months[m] = c

\* a table cell: NaN, a value read from a dataset, or a mean kept as the
\* fraction num/den
NaN == [num |-> 0, den |-> 0]
Val(x) == [num |-> x, den |-> 1]

\* line 307
normalize_lon_ge(x) == IF x >= 180 THEN x - 360 ELSE x

normalize_lon(x) == IF x > 180 THEN x - 360 ELSE x

\* lines 314-318: one all-NaN row per (lat, lon) pair, columns
\* variable-major
new_table(la, lo, vs) ==
    [index |-> [i \in DOMAIN la |-> <<la[i], lo[i]>>],
     columns |-> [p \in 1..(Len(vs) * Len(cols)) |->
                    <<vs[((p - 1) \div Len(cols)) + 1],
                      cols[((p - 1) % Len(cols)) + 1]>>],
     data |-> [i \in DOMAIN la |->
                 [c \in Range(vs) \X Range(cols) |-> NaN]]]

\* nco.variables[v][:, j, kk]: the 12 monthly values of the cell at latitude
\* index j and longitude index kk of a dataset
Monthly(ds, j, kk) ==
    [m \in 1..12 |-> ds.seed + (m * m) + (13 * j) + (31 * kk)]

\* lines 330-331 with every row given the cell of the first point
fill_rows_first(table, v, ds, ilat, ilon) ==
    [table EXCEPT !.data =
        [i \in DOMAIN table.data |->
            [c \in DOMAIN table.data[i] |->
                IF c[1] = v /\ c[2] \in Range(months)
                THEN Val(Monthly(ds, ilat[1], ilon[1])[MonthNo(c[2])])
                ELSE table.data[i][c]]]]

\* lines 330-331: row i takes the cell (idx_lat[i], idx_lon[i]).  ret.loc
\* with slice(i, i+1) is taken to address the row at position i.
fill_rows(table, v, ds, ilat, ilon) ==
    [table EXCEPT !.data =
        [i \in DOMAIN table.data |->
            [c \in DOMAIN table.data[i] |->
                IF c[1] = v /\ c[2] \in Range(months)
                THEN Val(Monthly(ds, ilat[i], ilon[i])[MonthNo(c[2])])
                ELSE table.data[i][c]]]]

RECURSIVE SumNum(_)
SumNum(cells) ==
    IF cells = << >> THEN 0 ELSE Head(cells).num + SumNum(Tail(cells))

IsNumber(cell) == cell.den # 0

\* DataFrame.mean(axis=1) over the named columns of a variable: NaN cells are
\* skipped
row_mean(row, v, names) ==
    LET present == SelectSeq([n \in DOMAIN names |-> row[<<v, names[n]>>]],
                             IsNumber)
    IN  IF present = << >> THEN NaN
        ELSE [num |-> SumNum(present), den |-> Len(present)]

\* a grouping that takes each season one month early
season_months_shifted(c) ==
    CASE c = "djf" -> <<"nov", "dec", "jan">>
      [] c = "mam" -> <<"feb", "mar", "apr">>
      [] c = "jja" -> <<"mai", "jun", "jul">>
      [] c = "son" -> <<"aug", "sep", "oct">>
      [] c = "ann" -> months

\* lines 335-339: the months each derived column averages
season_months(c) ==
    CASE c = "djf" -> <<"jan", "feb", "dec">>
      [] c = "mam" -> <<"mar", "apr", "mai">>
      [] c = "jja" -> <<"jun", "jul", "aug">>
      [] c = "son" -> <<"sep", "oct", "nov">>
      [] c = "ann" -> months

\* lines 334-339
seasonal_averages(table) ==
    [table EXCEPT !.data =
        [i \in DOMAIN table.data |->
            [c \in DOMAIN table.data[i] |->
                IF c[2] \in Range(seasons)
                THEN row_mean(table.data[i], c[1], season_months(c[2]))
                ELSE table.data[i][c]]]]

\* lines 340-342 with every table of one row returned as a series
climate_result_single_row(table, sq) ==
    IF Len(table.data) = 1
    THEN [kind |-> "Series", error |-> "none", index |-> <<table.index[1]>>,
          columns |-> table.columns, data |-> <<table.data[1]>>,
          value |-> << >>]
    ELSE [kind |-> "DataFrame", error |-> "none", index |-> table.index,
          columns |-> table.columns, data |-> table.data, value |-> << >>]

\* lines 340-342: ret.T.iloc[:, 0] is row 0 as a series named by its label
climate_result(table, sq) ==
    IF sq
    THEN [kind |-> "Series", error |-> "none", index |-> <<table.index[1]>>,
          columns |-> table.columns, data |-> <<table.data[1]>>,
          value |-> << >>]
    ELSE [kind |-> "DataFrame", error |-> "none", index |-> table.index,
          columns |-> table.columns, data |-> table.data, value |-> << >>]

\* lines 324-331 from the kv-th variable on: dss[kv] is the dataset that the
\* file of vs[kv] holds
RECURSIVE read_datasets(_, _, _, _, _, _)
read_datasets(table, vs, dss, la, lo, kv) ==
    IF kv > Len(vs) THEN [raised |-> "none", table |-> table]
    ELSE LET ilon == find_closest(dss[kv].lon, lo)
             ilat == lat_index(dss[kv].lat, la)
         IN  IF ilon.raised # "none" \/ ilat.raised # "none"
             THEN [raised |-> "IndexError", table |-> table]
             ELSE read_datasets(fill_rows(table, vs[kv], dss[kv], ilat.idx,
                                          ilon.idx),
                                vs, dss, la, lo, kv + 1)

\* lines 299-342 as one function of the arguments and of the datasets read:
\* what get_climate(la, lo, vs) gives once its files are resolved
get_climate_value(la, lo, vs, dss) ==
    LET sq == (la.shape = << >>)
        lon_n == [i \in DOMAIN lo.data |-> normalize_lon(lo.data[i])]
        r == read_datasets(new_table(la.data, lon_n, vs), vs, dss, la.data,
                           lon_n, 1)
    IN  IF r.raised # "none" THEN Raised(r.raised)
        ELSE climate_result(seasonal_averages(r.table), sq)

----------------------------------------------------------------------------
(* get_country: the boundary collection *)

\* A geometry is a box; prep(shape(geom)).contains(Point(lon, lat)) holds for
\* the points of its interior.
contains(geom, la, lo) ==
    /\ geom.w < lo /\ lo < geom.e
    /\ geom.s < la /\ la < geom.n

\* countries[country] = geom on a dict kept in insertion order: a new key is
\* added at the end, a key already present keeps its place and takes the
\* new geometry
dict_set(d, key, val) ==
    IF \E i \in DOMAIN d : d[i][1] = key
    THEN [i \in DOMAIN d |-> IF d[i][1] = key THEN <<key, val>> ELSE d[i]]
    ELSE Append(d, <<key, val>>)

\* lines 125-129
RECURSIVE build_countries(_)
build_countries(features) ==
    IF features = << >> THEN << >>
    ELSE LET n == Len(features)
         IN  dict_set(build_countries(SubSeq(features, 1, n - 1)),
                      features[n].ADMIN, features[n].geometry)

\* the inner get_country without its final return
get_country_point_no_fallback(d, la, lo) ==
    LET hits == {i \in DOMAIN d : contains(d[i][2], la, lo)}
    IN  IF hits = {} THEN "None"
        ELSE d[CHOOSE i \in hits : \A j \in hits : i <= j][1]

\* lines 131-137: the inner get_country
get_country_point(d, la, lo) ==
    LET hits == {i \in DOMAIN d : contains(d[i][2], la, lo)}
    IN  IF hits = {} THEN "unknown"
        ELSE d[CHOOSE i \in hits : \A j \in hits : i <= j][1]

\* lines 139-142
country_result(d, la, lo) ==
    IF la.shape = << >>
    THEN [NoResult EXCEPT !.kind = "str",
                          !.value = <<get_country_point(d, la.data[1],
                                                        lo.data[1])>>]
    ELSE [NoResult EXCEPT !.kind = "list",
                          !.value = [i \in DOMAIN la.data |->
                                       get_country_point(d, la.data[i],
                                                         lo.data[i])]]

----------------------------------------------------------------------------
(* The grid resolver on its own: one axis, one query value.                *)
(* nco.lon holds the ascending axis, nco.lat the same values stored        *)
(* descending, as get_climate finds them in a dataset.                     *)

GridInit ==
    /\ \E a \in AscendingAxes(MaxAxisLen, MaxAxisVal) :
           nco = <<[lon |-> a, lat |-> Reverse(a), name |-> "", seed |-> 0]>>
    /\ \E v \in -1..(MaxAxisVal + 1) :
           /\ lon = Array(<<v>>)
           /\ lat = Array(<<v>>)
    /\ pc = "grid"
    /\ files = {}
    /\ datadir = TRUE
    /\ variables = << >>
    /\ res = "10m"
    /\ data = << >>
    /\ squeeze = FALSE
    /\ io = << >>
    /\ k = 0
    /\ idx_lat = NoLookup
    /\ idx_lon = NoLookup
    /\ ret = NoTable
    /\ countries = << >>
    /\ call = NoCall
    /\ result = NoResult
    /\ asked = {}
    /\ returned = {}

\* lines 327-329 applied to the axes and the query value
GridLookup ==
    /\ pc = "grid"
    /\ idx_lon' = find_closest(nco[1].lon, lon.data)
    /\ idx_lat' = lat_index(nco[1].lat, lat.data)
    /\ pc' = "grid_done"
    /\ UNCHANGED <<files, datadir, lat, lon, variables, res, squeeze, io, k,
                   nco, ret, data, countries, call, result>>
    /\ UNCHANGED <<asked, returned>>

GridNext == GridLookup

SpecGrid == GridInit /\ [][GridNext]_vars

----------------------------------------------------------------------------
(* Claims about the grid resolver, checked under SpecGrid *)

GridAxis == nco[1].lon
GridLatAxis == nco[1].lat
GridValue == lon.data[1]
GridBelow == GridValue < GridAxis[1]
GridAbove == GridValue > GridAxis[Len(GridAxis)]
GridInRange == ~GridBelow /\ ~GridAbove

\* C1: for a query value outside the range of an ascending axis,
\* find_closest raises no error and returns the nearest edge index: 0 below
\* the range, len(A) - 1 above it.
C1_BoundaryClamping ==
    (pc = "grid_done" /\ ~GridInRange) =>
        /\ idx_lon.raised = "none"
        /\ idx_lon.idx[1] = (IF GridBelow THEN 0 ELSE Len(GridAxis) - 1)

\* C2: for a query value within the range of an ascending duplicate-free
\* axis, find_closest returns an index minimising |A[i] - v|, and of two
\* equidistant entries it returns the higher index.
C2_NearestNeighbor ==
    (pc = "grid_done" /\ GridInRange) =>
        /\ idx_lon.raised = "none"
        /\ idx_lon.idx[1] \in 0..(Len(GridAxis) - 1)
        /\ \A j \in 0..(Len(GridAxis) - 1) :
               LET d == Abs(At(GridAxis, idx_lon.idx[1]) - GridValue)
                   e == Abs(At(GridAxis, j) - GridValue)
               IN  d <= e /\ (d = e => j <= idx_lon.idx[1])

\* a query value exactly halfway between two adjacent axis entries was
\* resolved
C2_Witness ==
    /\ pc = "grid_done"
    /\ GridInRange
    /\ idx_lon.raised = "none"
    /\ \E j \in 1..(Len(GridAxis) - 1) :
           GridValue - GridAxis[j] = GridAxis[j + 1] - GridValue

\* C10: for a descending latitude axis D and a query value within its range,
\* the index j = len(D) - 1 - find_closest(reverse(D), v) is within
\* 0..len(D) - 1, D[j] is the entry find_closest selects on reverse(D), and
\* D[j] is an axis value nearest to v.
C10_DescendingAxis ==
    (pc = "grid_done" /\ GridInRange) =>
        /\ idx_lat.raised = "none"
        /\ idx_lat.idx[1] \in 0..(Len(GridLatAxis) - 1)
        /\ LET r == find_closest(Reverse(GridLatAxis), lat.data)
           IN  /\ r.raised = "none"
               /\ At(GridLatAxis, idx_lat.idx[1]) = At(Reverse(GridLatAxis), r.idx[1])
        /\ \A j \in 0..(Len(GridLatAxis) - 1) :
               Abs(At(GridLatAxis, idx_lat.idx[1]) - lat.data[1])
                   <= Abs(At(GridLatAxis, j) - lat.data[1])

\* a value nearest to the first (highest) entry of a descending axis of
\* several entries was resolved: the index on the reversed axis is the last
C10_Witness ==
    /\ pc = "grid_done"
    /\ GridInRange
    /\ Len(GridLatAxis) >= 2
    /\ idx_lat.raised = "none"
    /\ idx_lat.idx[1] = 0

----------------------------------------------------------------------------
(* The calls: inputs and environment *)

\* get_climate's points
LatInputs == {44, 46}
LonInputs == {-180, 6, 180, 356}
\* get_country's points: one in each box below and one north of both
CountryLatInputs == {44, 46, 60}
CountryLonInputs == {6}

\* scalar arguments and sequences of 1..MaxPoints values
ArgsOver(S) ==
    {Scalar(x) : x \in S}
        \cup {Array(s) : s \in UNION {[1..n -> S] : n \in 1..MaxPoints}}

\* requested variables: a supported name and an unsupported one, no name
\* twice in a list
VarNames == {"tavg", "foo"}
VarLists ==
    {vs \in UNION {[1..n -> VarNames] : n \in 1..MaxVars} :
        \A i, j \in DOMAIN vs : i # j => vs[i] # vs[j]}

LatArgs == ArgsOver(LatInputs)
LonArgs == ArgsOver(LonInputs)
CountryLatArgs == ArgsOver(CountryLatInputs)
CountryLonArgs == ArgsOver(CountryLonInputs)

InitialFiles == {NcFile(v, "10m") : v \in VarNames} \cup {CountriesGeojson}

\* what a dataset file <v>_<res>.nc holds: a 2 x 2 grid with the latitude
\* axis stored descending, the variable named v, and one of two rasters
Seeds == {0, 7}
Datasets(v) ==
    {[lon |-> <<0, 10>>, lat |-> <<50, 40>>, name |-> v, seed |-> sd] :
        sd \in Seeds}

\* what countries.geojson holds: up to MaxFeatures features, names may repeat
South == [w |-> 0, e |-> 10, s |-> 40, n |-> 45]
North == [w |-> 0, e |-> 10, s |-> 45, n |-> 50]
Features == [ADMIN : {"A", "B"}, geometry : {South, North}]
Collections == UNION {[1..n -> Features] : n \in 0..MaxFeatures}
AllDatasets == UNION {Datasets(v) : v \in VarNames}

Init ==
    /\ files \in SUBSET InitialFiles
    /\ datadir \in BOOLEAN
    /\ ~datadir => files = {}
    /\ pc = "idle"
    /\ lat = Scalar(0)
    /\ lon = Scalar(0)
    /\ variables = << >>
    /\ res = "None"
    /\ squeeze = FALSE
    /\ io = << >>
    /\ k = 0
    /\ nco = << >>
    /\ idx_lat = NoLookup
    /\ idx_lon = NoLookup
    /\ ret = NoTable
    /\ data = << >>
    /\ countries = << >>
    /\ call = NoCall
    /\ result = NoResult
    /\ asked = {}
    /\ returned = {}

----------------------------------------------------------------------------
(* get_climate *)

\* np.shape(lat) == np.shape(lon) with only the lengths compared
same_length(la, lo) == Len(la.data) = Len(lo.data)

\* lines 120 and 289: np.shape(lat) == np.shape(lon)
same_shape(la, lo) == la.shape = lo.shape

\* lines 288-320: the shape assertion, squeeze, np.asarray, the longitude
\* normalisation, the empty table and the resolution
ClimateCall(la, lo, vs, r) ==
    /\ pc = "idle"
    /\ call' = [op |-> "get_climate", lat |-> la, lon |-> lo]
    /\ variables' = vs
    /\ io' = << >>
    /\ IF ~same_shape(la, lo)
       THEN /\ result' = Raised("AssertionError")
            /\ pc' = "climate_done"
            /\ lat' = la
            /\ lon' = lo
            /\ UNCHANGED <<res, squeeze, ret, k>>
       ELSE /\ squeeze' = (la.shape = << >>)
            /\ lat' = Array(la.data)
            /\ lon' = Array([i \in DOMAIN lo.data |->
                               normalize_lon(lo.data[i])])
            /\ ret' = new_table(la.data, lon'.data, vs)
            /\ res' = get_wc_resolution(r)
            /\ k' = 1
            /\ pc' = "climate_resolve"
            /\ UNCHANGED result
    /\ UNCHANGED <<files, datadir, nco, idx_lat, idx_lon, data, countries>>
    /\ UNCHANGED <<asked, returned>>

\* line 322: get_data_file for the k-th variable; ok is whether a download,
\* if one is made, succeeds
ClimateResolve(ok) ==
    /\ pc = "climate_resolve"
    /\ LET fs == get_data_file(NcFile(variables[k], res), TRUE,
                               [CallFs(files, datadir) EXCEPT !.io = io], ok)
       IN  /\ files' = fs.files
           /\ datadir' = fs.datadir
           /\ io' = fs.io
           /\ IF fs.raised # "none"
              THEN /\ result' = Raised(fs.raised)
                   /\ pc' = "climate_done"
                   /\ UNCHANGED k
              ELSE /\ UNCHANGED result
                   /\ IF k < Len(variables)
                      THEN k' = k + 1 /\ pc' = "climate_resolve"
                      ELSE k' = 1 /\ pc' = "climate_read"
    /\ UNCHANGED <<lat, lon, variables, res, squeeze, nco, idx_lat, idx_lon,
                   ret, data, countries, call>>
    /\ UNCHANGED <<asked, returned>>

\* lines 324-331 for the k-th variable: the dataset is opened, both lookups
\* run and the rows take their monthly values.  A file <v>_<res>.nc holds
\* the variable v.
ClimateRead(ds) ==
    /\ pc = "climate_read"
    /\ ds \in Datasets(variables[k])
    /\ nco' = Append(nco, ds)
    /\ io' = Append(io, Event("open", NcFile(variables[k], res)))
    /\ idx_lon' = find_closest(ds.lon, lon.data)
    /\ idx_lat' = IF idx_lon'.raised # "none" THEN NoLookup
                  ELSE lat_index(ds.lat, lat.data)
    /\ IF idx_lon'.raised # "none" \/ idx_lat'.raised # "none"
       THEN /\ result' = Raised("IndexError")
            /\ pc' = "climate_done"
            /\ UNCHANGED <<ret, k>>
       ELSE /\ ret' = fill_rows(ret, variables[k], ds, idx_lat'.idx,
                                idx_lon'.idx)
            /\ UNCHANGED result
            /\ IF k < Len(variables)
               THEN k' = k + 1 /\ pc' = "climate_read"
               ELSE k' = 0 /\ pc' = "climate_aggregate"
    /\ UNCHANGED <<files, datadir, lat, lon, variables, res, squeeze, data,
                   countries, call>>
    /\ UNCHANGED <<asked, returned>>

\* lines 333-342
ClimateFinish ==
    /\ pc = "climate_aggregate"
    /\ ret' = seasonal_averages(ret)
    /\ result' = climate_result(ret', squeeze)
    /\ pc' = "climate_done"
    /\ UNCHANGED <<files, datadir, lat, lon, variables, res, squeeze, io, k,
                   nco, idx_lat, idx_lon, data, countries, call>>
    /\ UNCHANGED <<asked, returned>>

----------------------------------------------------------------------------
(* get_country *)

\* lines 117-120
CountryCall(la, lo) ==
    /\ pc = "idle"
    /\ call' = [op |-> "get_country", lat |-> la, lon |-> lo]
    /\ lat' = la
    /\ lon' = lo
    /\ io' = << >>
    /\ IF ~same_shape(la, lo)
       THEN result' = Raised("AssertionError") /\ pc' = "country_done"
       ELSE UNCHANGED result /\ pc' = "country_load"
    /\ UNCHANGED <<files, datadir, variables, res, squeeze, k, nco, idx_lat,
                   idx_lon, ret, data, countries>>
    /\ UNCHANGED <<asked, returned>>

\* lines 122-129: countries.geojson is resolved, opened and loaded, and the
\* dict is built from its features
CountryLoad(ok, features) ==
    /\ pc = "country_load"
    /\ LET fs == get_data_file(CountriesGeojson, TRUE,
                               [CallFs(files, datadir) EXCEPT !.io = io], ok)
       IN  /\ files' = fs.files
           /\ datadir' = fs.datadir
           /\ IF fs.raised # "none"
              THEN /\ result' = Raised(fs.raised)
                   /\ pc' = "country_done"
                   /\ io' = fs.io
                   /\ UNCHANGED <<data, countries>>
              ELSE /\ io' = Append(fs.io, Event("open", CountriesGeojson))
                   /\ data' = features
                   /\ countries' = build_countries(features)
                   /\ pc' = "country_lookup"
                   /\ UNCHANGED result
    /\ UNCHANGED <<lat, lon, variables, res, squeeze, k, nco, idx_lat,
                   idx_lon, ret, call>>
    /\ UNCHANGED <<asked, returned>>

\* lines 131-142
CountryLookup ==
    /\ pc = "country_lookup"
    /\ result' = country_result(countries, lat, lon)
    /\ pc' = "country_done"
    /\ UNCHANGED <<files, datadir, lat, lon, variables, res, squeeze, io, k,
                   nco, idx_lat, idx_lon, ret, data, countries, call>>
    /\ UNCHANGED <<asked, returned>>

----------------------------------------------------------------------------

\* the call is over: its locals are gone, the data directory stays
Return ==
    /\ pc \in {"climate_done", "country_done"}
    /\ pc' = "idle"
    /\ lat' = Scalar(0)
    /\ lon' = Scalar(0)
    /\ variables' = << >>
    /\ res' = "None"
    /\ squeeze' = FALSE
    /\ io' = << >>
    /\ k' = 0
    /\ nco' = << >>
    /\ idx_lat' = NoLookup
    /\ idx_lon' = NoLookup
    /\ ret' = NoTable
    /\ data' = << >>
    /\ countries' = << >>
    /\ call' = NoCall
    /\ result' = NoResult
    /\ UNCHANGED <<files, datadir>>
    /\ UNCHANGED <<asked, returned>>

\* get_climate(lat, lon, variables) is called, res left at its default
GetClimate ==
    /\ pc = "idle"
    /\ \E la \in LatArgs, lo \in LonArgs, vs \in VarLists :
           ClimateCall(la, lo, vs, "None")

\* get_country(lat, lon) is called
GetCountry ==
    /\ pc = "idle"
    /\ \E la \in CountryLatArgs, lo \in CountryLonArgs : CountryCall(la, lo)

ResolveDataFile ==
    /\ pc = "climate_resolve"
    /\ \E ok \in BOOLEAN : ClimateResolve(ok)

ReadDataset ==
    /\ pc = "climate_read"
    /\ \E ds \in AllDatasets : ClimateRead(ds)

LoadCountries ==
    /\ pc = "country_load"
    /\ \E ok \in BOOLEAN, features \in Collections :
           CountryLoad(ok, features)

Next ==
    \/ GetClimate
    \/ ResolveDataFile
    \/ ReadDataset
    \/ ClimateFinish
    \/ GetCountry
    \/ LoadCountries
    \/ CountryLookup
    \/ Return

Spec == Init /\ [][Next]_vars

----------------------------------------------------------------------------
(* get_data_file called on its own, any number of times.  Nothing deletes  *)
(* a file of the data directory.                                           *)

\* the file names asked for: a dataset of a supported variable, one of an
\* unsupported variable, the two boundary files and a name of neither kind
FileNames ==
    {NcFile("tavg", "10m"), NcFile("foo", "10m"), CountriesGeojson,
     NaturalEarthShp, Plain("other.txt")}

\* the path get_data_file returns: that of fname in the data directory
Path(fname) == [NoResult EXCEPT !.kind = "path", !.value = <<fname>>]

FilesInit ==
    /\ files \in SUBSET FileNames
    /\ datadir \in BOOLEAN
    /\ ~datadir => files = {}
    /\ pc = "idle"
    /\ lat = Scalar(0)
    /\ lon = Scalar(0)
    /\ variables = << >>
    /\ res = "None"
    /\ squeeze = FALSE
    /\ io = << >>
    /\ k = 0
    /\ nco = << >>
    /\ idx_lat = NoLookup
    /\ idx_lon = NoLookup
    /\ ret = NoTable
    /\ data = << >>
    /\ countries = << >>
    /\ call = NoCall
    /\ result = NoResult
    /\ asked = {}
    /\ returned = {}

\* lines 63-89: get_data_file(fname, download); ok is whether the transfer,
\* if one is started, succeeds.  call.missing records that fname was not in
\* the data directory when the call began.
DataFileCall(fname, download, ok) ==
    /\ pc = "idle"
    /\ call' = [op |-> "get_data_file", fname |-> fname,
                download |-> download, missing |-> fname \notin files]
    /\ LET fs == get_data_file(fname, download, CallFs(files, datadir), ok)
       IN  /\ files' = fs.files
           /\ datadir' = fs.datadir
           /\ io' = fs.io
           /\ result' = IF fs.raised # "none" THEN Raised(fs.raised)
                         ELSE Path(fname)
    /\ pc' = "file_done"
    /\ UNCHANGED <<lat, lon, variables, res, squeeze, k, nco, idx_lat,
                   idx_lon, ret, data, countries, asked, returned>>

\* the call is over and is remembered
DataFileReturn ==
    /\ pc = "file_done"
    /\ asked' = asked \cup {call.fname}
    /\ returned' = IF result.kind = "path" THEN returned \cup {call.fname}
                    ELSE returned
    /\ pc' = "idle"
    /\ io' = << >>
    /\ call' = NoCall
    /\ result' = NoResult
    /\ UNCHANGED <<files, datadir, lat, lon, variables, res, squeeze, k, nco,
                   idx_lat, idx_lon, ret, data, countries>>

GetDataFile ==
    /\ pc = "idle"
    /\ \E fname \in FileNames, download \in BOOLEAN, ok \in BOOLEAN :
           DataFileCall(fname, download, ok)

FilesNext ==
    \/ GetDataFile
    \/ DataFileReturn

SpecFiles == FilesInit /\ [][FilesNext]_vars

----------------------------------------------------------------------------
(* Claims about the calls, checked under Spec *)

InClimate == call.op = "get_climate"
InCountry == call.op = "get_country"
Opened == \E n \in DOMAIN io : io[n].op = "open"
Downloaded(f) == \E n \in DOMAIN io : io[n] = Event("download", f)
Returned == result.kind \in {"DataFrame", "Series", "str", "list"}

\* the monthly values of the cell of the kv-th variable's dataset that point
\* i resolves to when it is looked up on its own
CellOf(i, kv) ==
    LET ds == nco[kv]
    IN  Monthly(ds, lat_index(ds.lat, <<lat.data[i]>>).idx[1],
                find_closest(ds.lon, <<lon.data[i]>>).idx[1])

\* C3 as stated: a get_climate call whose variables list holds an
\* unsupported name ends with an error before any file access or download,
\* whatever files exist.  Existence tests and failed transfers are not
\* counted here: no file is opened and none is written by a download.
C3_UnknownVariableBeforeIO ==
    (InClimate /\ \E i \in DOMAIN variables :
                      variables[i] \notin worldclim_variables) =>
        /\ \A n \in DOMAIN io :
               /\ io[n].op # "open"
               /\ io[n].op = "download" => io[n].file \notin files
        /\ pc = "climate_done" => result.kind = "raised"

\* C3 amended: a get_climate call whose variables list holds an unsupported
\* name with no file <name>_<res>.nc in the data directory opens no dataset,
\* attempts no download for an unsupported name, and ends with an error.
C3_UnknownVariableRejected ==
    (InClimate /\ \E i \in DOMAIN variables :
                      /\ variables[i] \notin worldclim_variables
                      /\ NcFile(variables[i], get_wc_resolution(res))
                             \notin files) =>
        /\ pc \in {"climate_resolve", "climate_done"}
        /\ ~Opened
        /\ \A n \in DOMAIN io :
               io[n].op = "download" =>
                   io[n].file.var \in worldclim_variables
        /\ pc = "climate_done" => result.kind = "raised"

\* the unsupported name was rejected after a supported variable listed
\* before it had been downloaded
C3_Witness ==
    /\ InClimate
    /\ pc = "climate_done"
    /\ result.error = "ValueError"
    /\ Len(variables) = 2
    /\ variables[2] \notin worldclim_variables
    /\ Downloaded(NcFile(variables[1], res))

\* C4: a get_climate or get_country call with lat and lon of different
\* shapes ends with an error at once, having done no I/O.
C4_ShapeMismatchRejected ==
    (call.op # "none" /\ call.lat.shape # call.lon.shape) =>
        /\ pc \in {"climate_done", "country_done"}
        /\ result = Raised("AssertionError")
        /\ io = << >>

\* get_country was called with a scalar lat and a sequence lon of one
\* element, while the data directory did not exist, and was rejected
C4_Witness ==
    /\ InCountry
    /\ call.lat.shape = << >>
    /\ call.lon.shape = <<1>>
    /\ result = Raised("AssertionError")
    /\ ~datadir

\* the name of the first feature, in the order of the loaded features list,
\* whose geometry contains the point
FirstContaining(la, lo) ==
    LET hits == {n \in DOMAIN data : contains(data[n].geometry, la, lo)}
    IN  data[CHOOSE n \in hits : \A m \in hits : n <= m].ADMIN

\* C5: for every query point that some feature contains, get_country
\* returns the name of the first feature of the loaded features list that
\* contains it, whatever names the features carry.
C5_FirstContainingPolygon ==
    (pc = "country_done" /\ Returned) =>
        \A i \in DOMAIN result.value :
            (\E n \in DOMAIN data :
                 contains(data[n].geometry, lat.data[i], lon.data[i])) =>
                result.value[i] = FirstContaining(lat.data[i], lon.data[i])

C6_DuplicateRows ==
    /\ pc = "climate_done"
    /\ result.kind = "DataFrame"
    /\ Len(result.index) = 2
    /\ result.index[1] = result.index[2]

\* the call passed the assertion of line 289, and so line 307
Normalized == InClimate /\ call.lat.shape = call.lon.shape

\* C7 as stated: every input longitude in [180, 360) is looked up as
\* longitude - 360, every one in [-180, 180) unchanged, and every longitude
\* looked up lies in [-180, 180].
C7_NormalizedFrom180 ==
    Normalized =>
        \A i \in DOMAIN lon.data :
            LET x == call.lon.data[i]
            IN  /\ (180 <= x /\ x < 360) => lon.data[i] = x - 360
                /\ (-180 <= x /\ x < 180) => lon.data[i] = x
                /\ -180 <= lon.data[i] /\ lon.data[i] <= 180

\* C7 amended: every input longitude in (180, 360) is looked up as
\* longitude - 360, every one in [-180, 180] unchanged, and every longitude
\* looked up lies in [-180, 180].
C7_NormalizedAbove180 ==
    Normalized =>
        \A i \in DOMAIN lon.data :
            LET x == call.lon.data[i]
            IN  /\ (180 < x /\ x < 360) => lon.data[i] = x - 360
                /\ (-180 <= x /\ x <= 180) => lon.data[i] = x
                /\ -180 <= lon.data[i] /\ lon.data[i] <= 180

\* a call given the longitudes 180 and 356 is about to look up 180 and -4
C7_Witness ==
    /\ InClimate
    /\ pc = "climate_read"
    /\ call.lon.data = <<180, 356>>
    /\ lon.data = <<180, -4>>

C9_UnknownFallback ==
    (pc = "country_done" /\ Opened) =>
        /\ result.kind = (IF call.lat.shape = << >> THEN "str" ELSE "list")
        /\ Len(result.value) = Len(call.lat.data)
        /\ \A i \in DOMAIN result.value :
               /\ result.value[i]
                      = country_result(countries, Scalar(call.lat.data[i]),
                                       Scalar(call.lon.data[i])).value[1]
               /\ (\A n \in DOMAIN data :
                       ~contains(data[n].geometry, call.lat.data[i],
                                 call.lon.data[i])) =>
                      result.value[i] = "unknown"

\* a list of two was returned: "unknown" for a first point that no feature
\* of a non-empty collection contains, a name for the second
C9_Witness ==
    /\ pc = "country_done"
    /\ result.kind = "list"
    /\ data # << >>
    /\ Len(result.value) = 2
    /\ result.value[1] = "unknown"
    /\ result.value[2] # "unknown"

\* the table that the batch form of the running call's point returns: the
\* same values passed as sequences, the same variables, the same datasets
BatchForm ==
    get_climate_value(Array(call.lat.data), Array(call.lon.data), variables,
                      nco)

\* C11: a get_climate call with a scalar (lat, lon) returns a series whose
\* labels and values, in (variable, period) order, are those of row 0 of the
\* one-row table that the call with the one-element sequences [lat], [lon]
\* returns for the same variables and datasets; a call with sequences, of
\* length one included, returns a table with one row per point.
C11_Squeeze ==
    (InClimate /\ pc = "climate_done" /\ Returned) =>
        IF call.lat.shape = << >>
        THEN /\ result.kind = "Series"
             /\ BatchForm.kind = "DataFrame"
             /\ Len(BatchForm.data) = 1
             /\ Len(result.data) = 1
             /\ result.columns = BatchForm.columns
             /\ Len(result.columns) = Len(variables) * Len(cols)
             /\ \A p \in DOMAIN result.columns :
                    result.data[1][result.columns[p]]
                        = BatchForm.data[1][BatchForm.columns[p]]
        ELSE /\ result.kind = "DataFrame"
             /\ Len(result.data) = Len(call.lat.data)
             /\ result = BatchForm

\* a scalar point with a longitude above 180 gave a series of two variables
C11_Witness ==
    /\ InClimate
    /\ pc = "climate_done"
    /\ result.kind = "Series"
    /\ call.lat.shape = << >>
    /\ call.lon.data[1] > 180
    /\ Len(variables) = 2

\* sequences of one element gave a table of one row
C11_OneElementTable ==
    /\ InClimate
    /\ pc = "climate_done"
    /\ result.kind = "DataFrame"
    /\ call.lat.shape = <<1>>
    /\ Len(result.data) = 1

----------------------------------------------------------------------------
(* Claims about get_data_file, checked under SpecFiles *)

\* the file names get_data_file can acquire
Recognized(f) ==
    \/ f \in {CountriesGeojson, NaturalEarthShp}
    \/ f \in {NcFile(v, r) : v \in worldclim_variables,
                              r \in worldclim_resolutions}

\* the transfers the running call started
Fetches == {n \in DOMAIN io : io[n].op = "download"}

\* one get_data_file(fname) call: a file that exists is returned with no
\* transfer; a missing recognized file is transferred exactly once, fname
\* itself, and the call returns its path or raises; a path returned is that
\* of fname and names an existing file; a transfer that leaves the file
\* missing ends the call with an error
ResolvesFile ==
    LET f == call.fname
    IN  /\ ~call.missing => (result = Path(f) /\ Fetches = {})
        /\ (call.missing /\ Recognized(f)) =>
               /\ Cardinality(Fetches) = 1
               /\ \A n \in Fetches : io[n].file = f
               /\ result.kind = "raised" \/ result = Path(f)
        /\ result.kind = "path" => (result = Path(f) /\ f \in files)
        /\ (Fetches # {} /\ f \notin files) => result.kind = "raised"

\* C12 as stated: get_data_file(fname) returns the path of an existing file
\* without acquisition, acquires a missing recognized file exactly once and
\* then returns its path, returns only paths of existing files and fails
\* when the acquisition fails; and of the calls made for one fname only the
\* first can trigger an acquisition.
C12_AcquiredByFirstCallOnly ==
    pc = "file_done" =>
        /\ ResolvesFile
        /\ Fetches # {} => call.fname \notin asked

\* C12 amended: as above, but of the calls made for one fname a call
\* triggers an acquisition only if no earlier call returned normally: a call
\* that follows failed ones acquires again.
C12_AcquiredUntilReturned ==
    pc = "file_done" =>
        /\ ResolvesFile
        /\ Fetches # {} => call.fname \notin returned

\* a call acquired the file and returned its path after an earlier call for
\* the same name had failed
C12_Witness ==
    /\ pc = "file_done"
    /\ call.fname \in asked
    /\ call.fname \notin returned
    /\ Downloaded(call.fname)
    /\ result = Path(call.fname)

\* C13: a get_data_file(fname, download) call triggers a download only if
\* download is True and the file is missing; with download False it
\* triggers none.
C13_DownloadFlag ==
    pc = "file_done" =>
        /\ Fetches # {} => (call.download /\ call.missing)
        /\ ~call.download => Fetches = {}

\* a call with download False started a transfer
C13_DownloadedWithoutFlag ==
    /\ pc = "file_done"
    /\ ~call.download
    /\ call.missing
    /\ Downloaded(call.fname)

============================================================================
